---- MODULE Spec2Model ----
(***************************************************************************)
(* The /search request of the paper search API: one request is fetched,    *)
(* reranked (HybridSearcher.hybrid_rerank), scored and capped              *)
(* (filter_papers, calculate_hybrid_score), grouped by year and answered   *)
(* (search_papers).                                                        *)
(*                                                                         *)
(* Python values are records [tag, n, s]: tag "int" carries n, tag "str"   *)
(* carries the code points s, tag "float" a fixed-point n, tag "None" is   *)
(* None and tag "missing" stands for a key the dict does not hold.         *)
(* Floats are fixed-point integers in                                      *)
(* units of 1/Scale; hybrid_score is kept in units of 1/(5*Scale), so that *)
(* 0.4*h + 0.4*m + 0.2*s becomes 2*h + 2*m + s.                            *)
(***************************************************************************)
EXTENDS Integers, Sequences, FiniteSets, TLC

VARIABLES pc, papers, embed, unique_papers, valid_papers, other_papers,
          reranked_papers, top_30_papers, response, error

vars == <<pc, papers, embed, unique_papers, valid_papers, other_papers,
          reranked_papers, top_30_papers, response, error>>

(***************************** bounds ***************************************)
\* longest list of freely chosen upstream records
MaxLen == 2
\* longest list of the generated long batches (above the cap of 30)
MaxLongLen == 32

(***************************** Python values ********************************)
Missing == [tag |-> "missing", n |-> 0, s |-> <<>>]
None == [tag |-> "None", n |-> 0, s |-> <<>>]
IntVal(k) == [tag |-> "int", n |-> k, s |-> <<>>]
\* a float, n in fixed-point units
FloatVal(k) == [tag |-> "float", n |-> k, s |-> <<>>]
StrVal(chars) == [tag |-> "str", n |-> 0, s |-> chars]

\* dict.get(key, default) on a field that may be missing
Get(v, default) == IF v.tag = "missing" THEN default ELSE v

\* truth value of a Python object
Truthy(v) ==
    CASE v.tag = "missing" -> FALSE
      [] v.tag = "None" -> FALSE
      [] v.tag = "int" -> v.n # 0
      [] v.tag = "float" -> v.n # 0
      [] v.tag = "str" -> Len(v.s) > 0

\* x or y
Or(x, y) == IF Truthy(x) THEN x ELSE y

RECURSIVE Digits(_)
Digits(k) == IF k < 10 THEN <<48 + k>> ELSE Append(Digits(k \div 10), 48 + (k % 10))

\* str(v), as code points
PyStr(v) ==
    CASE v.tag = "int" -> IF v.n < 0 THEN <<45>> \o Digits(-v.n) ELSE Digits(v.n)
      [] v.tag = "None" -> <<78, 111, 110, 101>>
      [] v.tag = "str" -> v.s

\* the default "Unknown" of paper.get("year", "Unknown")
Unknown == StrVal(<<85, 110, 107, 110, 111, 119, 110>>)

\* a < b on Python strings: lexicographic by code point
RECURSIVE StrLess(_, _)
StrLess(a, b) ==
    IF Len(b) = 0 THEN FALSE
    ELSE IF Len(a) = 0 THEN TRUE
    ELSE IF Head(a) # Head(b) THEN Head(a) < Head(b)
    ELSE StrLess(Tail(a), Tail(b))

(***************************** scoring **************************************)
\* datetime.now().year
CurrentYear == 2026
\* resolution of the fixed-point floats
Scale == 100000
\* smoothing constant of reciprocal rank fusion
RRF_K == 60
\* the global cap of filter_papers
TopN == 30

\* math.log10 on 1..10, rounded down to 1/Scale
Log10Table == <<0, 30102, 47712, 60205, 69897, 77815, 84509, 90308, 95424, 100000>>

\* a call either returns a value or raises
Ret(v) == [exc |-> "", val |-> v]
Raise(e) == [exc |-> e, val |-> 0]

\* math.log10(x) for an integer x
Log10(x) == IF x <= 0 THEN Raise("ValueError") ELSE Ret(Log10Table[x])

\* a / b on numbers, a in units of 1, the result in units of 1/Scale
TrueDiv(a, b) ==
    IF b = 0 THEN Raise("ZeroDivisionError")
    ELSE IF b > 0 THEN Ret((a * Scale) \div b)
    ELSE Ret(-((a * Scale) \div (-b)))

\* variant: the arithmetic runs before the year is looked at
calculate_hybrid_score_unguarded(paper) ==
    LET total_citations == Or(Get(paper.citationCount, IntVal(0)), IntVal(0))
        published_year == Get(paper.year, None)
        semantic_similarity == Get(paper.semantic_similarity, FloatVal(0))
        historical_raw == Log10(total_citations.n + 1)
    IN  IF historical_raw.exc # "" THEN historical_raw
        ELSE IF published_year.tag = "None" THEN Raise("TypeError")
        ELSE LET momentum_raw ==
                     TrueDiv(total_citations.n, (CurrentYear - published_year.n) + 1)
             IN  IF momentum_raw.exc # "" THEN momentum_raw
                 ELSE Ret(2 * historical_raw.val + 2 * momentum_raw.val
                          + semantic_similarity.n)

\* calculate_hybrid_score(paper): the score in units of 1/(5*Scale), or the
\* exception the arithmetic raises
calculate_hybrid_score(paper) ==
    LET total_citations == Or(Get(paper.citationCount, IntVal(0)), IntVal(0))
        published_year == Get(paper.year, None)
        semantic_similarity == Get(paper.semantic_similarity, FloatVal(0))
    IN  IF published_year.tag = "None" THEN Ret(0)
        ELSE LET historical_raw == Log10(total_citations.n + 1)
                 years_active == (CurrentYear - published_year.n) + 1
                 momentum_raw == TrueDiv(total_citations.n, years_active)
             IN  IF historical_raw.exc # "" THEN historical_raw
                 ELSE IF momentum_raw.exc # "" THEN momentum_raw
                 ELSE Ret(2 * historical_raw.val + 2 * momentum_raw.val
                          + semantic_similarity.n)

\* variant: an insertion that puts a paper before the papers of equal score
InsertDescBeforeEqual(sorted, x) ==
    LET before == {i \in 1..Len(sorted) : sorted[i].hybrid_score.n > x.hybrid_score.n}
    IN  SubSeq(sorted, 1, Cardinality(before)) \o <<x>>
        \o SubSeq(sorted, Cardinality(before) + 1, Len(sorted))

\* sorted(..., key=hybrid_score, reverse=True): stable, equal keys keep their order
RECURSIVE InsertDesc(_, _)
InsertDesc(sorted, x) ==
    IF Len(sorted) = 0 THEN <<x>>
    ELSE IF Head(sorted).hybrid_score.n >= x.hybrid_score.n
         THEN <<Head(sorted)>> \o InsertDesc(Tail(sorted), x)
         ELSE <<x>> \o sorted

\* variant: the sort without reverse=True
SortedByScoreAsc(ps) ==
    LET RECURSIVE InsertAsc(_, _)
        InsertAsc(sorted, x) ==
            IF Len(sorted) = 0 THEN <<x>>
            ELSE IF Head(sorted).hybrid_score.n <= x.hybrid_score.n
                 THEN <<Head(sorted)>> \o InsertAsc(Tail(sorted), x)
                 ELSE <<x>> \o sorted
        RECURSIVE SortAsc(_)
        SortAsc(s) ==
            IF Len(s) = 0 THEN <<>>
            ELSE InsertAsc(SortAsc(SubSeq(s, 1, Len(s) - 1)), s[Len(s)])
    IN  SortAsc(ps)

RECURSIVE SortedByScoreDesc(_)
SortedByScoreDesc(ps) ==
    IF Len(ps) = 0 THEN <<>>
    ELSE InsertDesc(SortedByScoreDesc(SubSeq(ps, 1, Len(ps) - 1)), ps[Len(ps)])

\* sorted_papers[:30]
Slice(ps, k) == SubSeq(ps, 1, IF Len(ps) < k THEN Len(ps) ELSE k)

\* filter_papers(papers): scores every paper, sorts, keeps the first 30
filter_papers(ps) ==
    LET scores == [i \in 1..Len(ps) |-> calculate_hybrid_score(ps[i])]
        raising == {i \in 1..Len(ps) : scores[i].exc # ""}
    IN  IF raising # {}
        THEN Raise(scores[CHOOSE i \in raising : \A j \in raising : i <= j].exc)
        ELSE Ret(Slice(SortedByScoreDesc(
                 [i \in 1..Len(ps) |->
                     [ps[i] EXCEPT !.hybrid_score = FloatVal(scores[i].val)]]), TopN))

(***************************** hybrid_rerank ********************************)
\* a paper record of the upstream response; the two scores are not set yet
Paper(id, abstract, year, citationCount) ==
    [paperId |-> id, abstract |-> abstract, year |-> year,
     citationCount |-> citationCount,
     semantic_similarity |-> Missing, hybrid_score |-> Missing]

\* step 1: the papers whose paperId is not in seen_ids yet, in input order
RECURSIVE Dedup(_, _)
Dedup(ps, seen_ids) ==
    IF Len(ps) = 0 THEN <<>>
    ELSE IF Head(ps).paperId \notin seen_ids
         THEN <<Head(ps)>> \o Dedup(Tail(ps), seen_ids \cup {Head(ps).paperId})
         ELSE Dedup(Tail(ps), seen_ids)

\* variant: the last record of an id is the one kept
DedupKeepLast(ps) ==
    LET kept == {i \in 1..Len(ps) :
                    \A j \in (i + 1)..Len(ps) : ps[j].paperId # ps[i].paperId}
        RECURSIVE Pick(_)
        Pick(i) == IF i > Len(ps) THEN <<>>
                   ELSE IF i \in kept THEN <<ps[i]>> \o Pick(i + 1) ELSE Pick(i + 1)
    IN  Pick(1)

UniquePapers(ps) == Dedup(ps, {})

\* p.get('abstract') as a condition
HasAbstract(p) == Truthy(Get(p.abstract, None))

ValidPapers(unique) == SelectSeq(unique, HasAbstract)
NotHasAbstract(p) == ~HasAbstract(p)
OtherPapers(unique) == SelectSeq(unique, NotHasAbstract)

\* the fused score of the node at 1-based rank r when both retrievers rank it r
RrfScore(r) == (2 * Scale) \div (RRF_K + r)

\* the orders in which the fusion retriever may return the documents
Orders == {"same", "reversed"}

\* nodes of fusion_retriever.aretrieve(query): every document once, in the
\* order the retrievers chose, each with its fused score
Nodes(valid, order) ==
    [r \in 1..Len(valid) |->
        [original_data |-> IF order = "same" THEN valid[r] ELSE valid[Len(valid) + 1 - r],
         score |-> RrfScore(r)]]

WithSimilarity(p, score) == [p EXCEPT !.semantic_similarity = FloatVal(score)]

\* steps 6 and the tail of hybrid_rerank: what the function returns
FusedResults(valid, other, order) ==
    IF Len(valid) = 0
    THEN [i \in 1..Len(other) |-> WithSimilarity(other[i], 0)]
    ELSE [i \in 1..Len(valid) |->
             WithSimilarity(Nodes(valid, order)[i].original_data,
                            Nodes(valid, order)[i].score)]
         \o [i \in 1..Len(other) |-> WithSimilarity(other[i], 0)]

(***************************** year grouping ********************************)
\* str(paper.get("year", "Unknown"))
YearKey(paper) == PyStr(Get(paper.year, Unknown))

\* variant: a group takes no more than five papers
GroupByYearCapped(ps, final_data) ==
    LET RECURSIVE Go(_, _)
        Go(rest, groups) ==
            IF Len(rest) = 0 THEN groups
            ELSE LET year == PyStr(Get(Head(rest).year, Unknown))
                     at == {i \in 1..Len(groups) : groups[i].year = year}
                 IN  IF at = {}
                     THEN Go(Tail(rest),
                             Append(groups, [year |-> year, papers |-> <<Head(rest)>>]))
                     ELSE Go(Tail(rest),
                             [i \in 1..Len(groups) |->
                                 IF i \in at /\ Len(groups[i].papers) < 5
                                 THEN [groups[i] EXCEPT !.papers = Append(@, Head(rest))]
                                 ELSE groups[i]])
    IN  Go(ps, final_data)

\* final_data after the loop over the papers: the keys in insertion order,
\* each with its list
RECURSIVE GroupByYear(_, _)
GroupByYear(ps, final_data) ==
    IF Len(ps) = 0 THEN final_data
    ELSE LET year == YearKey(Head(ps))
             at == {i \in 1..Len(final_data) : final_data[i].year = year}
         IN  IF at = {}
             THEN GroupByYear(Tail(ps),
                      Append(final_data, [year |-> year, papers |-> <<Head(ps)>>]))
             ELSE GroupByYear(Tail(ps),
                      [i \in 1..Len(final_data) |->
                          IF i \in at
                          THEN [final_data[i] EXCEPT !.papers = Append(@, Head(ps))]
                          ELSE final_data[i]])

\* sorted(final_data.keys(), reverse=True) applied to the groups
RECURSIVE InsertKeyDesc(_, _)
InsertKeyDesc(sorted, g) ==
    IF Len(sorted) = 0 THEN <<g>>
    ELSE IF ~StrLess(Head(sorted).year, g.year)
         THEN <<Head(sorted)>> \o InsertKeyDesc(Tail(sorted), g)
         ELSE <<g>> \o sorted

RECURSIVE SortedYearsDesc(_)
SortedYearsDesc(groups) ==
    IF Len(groups) = 0 THEN <<>>
    ELSE InsertKeyDesc(SortedYearsDesc(SubSeq(groups, 1, Len(groups) - 1)),
                       groups[Len(groups)])

\* the body of the response (the query is echoed and left out)
Response(top) ==
    [total_papers |-> Len(top),
     papers_by_year |-> SortedYearsDesc(GroupByYear(top, <<>>))]

(***************************** upstream batches *****************************)
Abc == StrVal(<<97, 98, 99>>)
Blank == StrVal(<<32>>)
Empty == StrVal(<<>>)

Ids == {1, 2}
Abstracts == {Missing, None, Empty, Blank, Abc}
Years == {Missing, None, IntVal(999), IntVal(CurrentYear - 1), IntVal(CurrentYear),
          IntVal(CurrentYear + 1)}
Citations == {Missing, None, IntVal(0), IntVal(2)}

\* the records a short batch is made of: each field varies over its values
Records ==
    {Paper(id, a, IntVal(CurrentYear), IntVal(1)) : id \in Ids, a \in Abstracts}
    \cup {Paper(id, Abc, y, IntVal(2)) : id \in Ids, y \in Years}
    \cup {Paper(id, Abc, IntVal(CurrentYear - 1), c) : id \in Ids, c \in Citations}
    \cup {Paper(id, Abc, IntVal(CurrentYear + 1), IntVal(0)) : id \in Ids}

ShortBatches == UNION {[1..n -> Records] : n \in 0..MaxLen}

Cycle(seq, i) == seq[(i % Len(seq)) + 1]

\* long batches, generated from a pattern: all of one year with repeating
\* citation counts; ten years; every kind of record with the first ids repeated
Patterns == {"oneyear", "tenyears", "mixed"}
LongPaper(pattern, n, i) ==
    CASE pattern = "oneyear" ->
            Paper(i, Abc, IntVal(CurrentYear - 1), IntVal(i % 3))
      [] pattern = "tenyears" ->
            Paper(i, Abc, IntVal(CurrentYear - (i % 10)), IntVal((7 * i) % 4))
      [] pattern = "mixed" ->
            Paper(IF i > n - 2 THEN i - (n - 2) ELSE i,
                  Cycle(<<Abc, Missing, Blank, None, Abc, Empty, Abc>>, i),
                  Cycle(<<IntVal(CurrentYear), Missing, IntVal(999), None,
                          IntVal(CurrentYear - 3)>>, i),
                  Cycle(<<IntVal(0), IntVal(3), None, IntVal(1)>>, i))

LongLens == {12} \cup (TopN..MaxLongLen)
LongBatches == {[i \in 1..n |-> LongPaper(pattern, n, i)] : n \in LongLens, pattern \in Patterns}

Batches == ShortBatches \cup LongBatches

\* what the embedding provider does in this request
Embeds == {"ok", "doc_fails", "down"}

(***************************** the request **********************************)
NoResponse == [total_papers |-> 0, papers_by_year |-> <<>>]

Init ==
    /\ pc = "start"
    /\ papers \in Batches
    /\ embed = "not_called"
    /\ unique_papers = <<>>
    /\ valid_papers = <<>>
    /\ other_papers = <<>>
    /\ reranked_papers = <<>>
    /\ top_30_papers = <<>>
    /\ response = NoResponse
    /\ error = 0

\* the upstream request fails: HTTPStatusError keeps the upstream status, any
\* other exception becomes 500
FetchFails ==
    /\ pc = "start"
    /\ \E status \in {429, 500} : error' = status
    /\ pc' = "error"
    /\ UNCHANGED <<papers, embed, unique_papers, valid_papers, other_papers,
                   reranked_papers, top_30_papers, response>>

\* hybrid_rerank returns
Rerank ==
    /\ pc = "start"
    /\ unique_papers' = UniquePapers(papers)
    /\ valid_papers' = ValidPapers(unique_papers')
    /\ other_papers' = OtherPapers(unique_papers')
    /\ embed' = IF Len(valid_papers') = 0 THEN "not_called" ELSE "ok"
    /\ \E order \in Orders :
           reranked_papers' = FusedResults(valid_papers', other_papers', order)
    /\ pc' = "reranked"
    /\ UNCHANGED <<papers, top_30_papers, response, error>>

\* building the index or retrieving raises because the embedding provider
\* fails; nothing in hybrid_rerank or search_papers catches it before the
\* handler's except clause
RerankRaises ==
    /\ pc = "start"
    /\ unique_papers' = UniquePapers(papers)
    /\ valid_papers' = ValidPapers(unique_papers')
    /\ other_papers' = OtherPapers(unique_papers')
    /\ Len(valid_papers') > 0
    /\ \E e \in Embeds \ {"ok"} : embed' = e
    /\ error' = 500
    /\ pc' = "error"
    /\ UNCHANGED <<papers, reranked_papers, top_30_papers, response>>

\* filter_papers returns
Filter ==
    /\ pc = "reranked"
    /\ filter_papers(reranked_papers).exc = ""
    /\ top_30_papers' = filter_papers(reranked_papers).val
    /\ pc' = "filtered"
    /\ UNCHANGED <<papers, embed, unique_papers, valid_papers, other_papers,
                   reranked_papers, response, error>>

\* calculate_hybrid_score raises inside filter_papers
FilterRaises ==
    /\ pc = "reranked"
    /\ filter_papers(reranked_papers).exc # ""
    /\ error' = 500
    /\ pc' = "error"
    /\ UNCHANGED <<papers, embed, unique_papers, valid_papers, other_papers,
                   reranked_papers, top_30_papers, response>>

\* steps 3 and 4 of search_papers: group, sort the years, return
Respond ==
    /\ pc = "filtered"
    /\ response' = Response(top_30_papers)
    /\ pc' = "done"
    /\ UNCHANGED <<papers, embed, unique_papers, valid_papers, other_papers,
                   reranked_papers, top_30_papers, error>>

Next == FetchFails \/ Rerank \/ RerankRaises \/ Filter \/ FilterRaises \/ Respond

Spec == Init /\ [][Next]_vars

(***************************** properties ***********************************)
Range(seq) == {seq[i] : i \in 1..Len(seq)}
IdsOf(seq) == {seq[i].paperId : i \in 1..Len(seq)}
Min(a, b) == IF a < b THEN a ELSE b
\* the index of the first record of an id in a sequence that holds the id
FirstIndex(seq, id) ==
    CHOOSE i \in 1..Len(seq) :
        /\ seq[i].paperId = id
        /\ \A j \in 1..(i - 1) : seq[j].paperId # id
AfterRerank == pc \in {"reranked", "filtered", "done"}
AfterFilter == pc \in {"filtered", "done"}
AbsentYear(p) == Get(p.year, None).tag = "None"

\* C1: after deduplication every distinct paperId of the input occurs exactly
\* once, the record kept for an id is the first one of the input, the kept
\* records are in input order, and the result is no longer than the input.
DedupFirstOccurrenceWins ==
    AfterRerank =>
        /\ IdsOf(unique_papers) = IdsOf(papers)
        /\ \A i, j \in 1..Len(unique_papers) :
               unique_papers[i].paperId = unique_papers[j].paperId => i = j
        /\ \A i \in 1..Len(unique_papers) :
               unique_papers[i] = papers[FirstIndex(papers, unique_papers[i].paperId)]
        /\ \A i, j \in 1..Len(unique_papers) :
               i < j => FirstIndex(papers, unique_papers[i].paperId)
                        < FirstIndex(papers, unique_papers[j].paperId)
        /\ Len(unique_papers) <= Len(papers)
        /\ (Len(papers) = 0 => Len(unique_papers) = 0)

\* a batch with two different records of one id has been deduplicated
DedupWitness ==
    /\ pc = "reranked"
    /\ Len(unique_papers) < Len(papers)
    /\ \E i, j \in 1..Len(papers) :
           i < j /\ papers[i].paperId = papers[j].paperId /\ papers[i] # papers[j]

\* the papers of the response, group after group
RECURSIVE Flatten(_)
Flatten(groups) ==
    IF Len(groups) = 0 THEN <<>> ELSE Head(groups).papers \o Flatten(Tail(groups))

\* C2: filter_papers returns min(30, n) of the n scored papers, none of them
\* scoring lower than a paper it leaves out; the response holds exactly the
\* returned papers, each once, and total_papers is their number.
GlobalCapKeepsTop ==
    /\ AfterFilter =>
        /\ Len(top_30_papers) = Min(TopN, Len(reranked_papers))
        /\ \A i \in 1..Len(top_30_papers) :
               /\ [top_30_papers[i] EXCEPT !.hybrid_score = Missing]
                      \in Range(reranked_papers)
               /\ top_30_papers[i].hybrid_score
                      = FloatVal(calculate_hybrid_score(top_30_papers[i]).val)
        /\ \A i, j \in 1..Len(top_30_papers) :
               top_30_papers[i].paperId = top_30_papers[j].paperId => i = j
        /\ \A i \in 1..Len(top_30_papers) : \A k \in 1..Len(reranked_papers) :
               reranked_papers[k].paperId \notin IdsOf(top_30_papers)
                   => top_30_papers[i].hybrid_score.n
                          >= calculate_hybrid_score(reranked_papers[k]).val
    /\ pc = "done" =>
        /\ Len(Flatten(response.papers_by_year)) = Len(top_30_papers)
        /\ Range(Flatten(response.papers_by_year)) = Range(top_30_papers)
        /\ response.total_papers = Len(top_30_papers)

\* more than 30 papers were scored, not all with the same score, and answered
GlobalCapWitness ==
    /\ pc = "done"
    /\ Len(reranked_papers) > TopN
    /\ response.total_papers = TopN
    /\ \E k \in 1..Len(reranked_papers) :
           /\ reranked_papers[k].paperId \notin IdsOf(top_30_papers)
           /\ calculate_hybrid_score(reranked_papers[k]).val
                  < top_30_papers[1].hybrid_score.n

\* the groups of the response
Groups == response.papers_by_year
SameYearOfTop(year) ==
    SelectSeq(top_30_papers, LAMBDA p : PyStr(Get(p.year, Unknown)) = year)

TryCitations == {Missing, None, IntVal(-1), IntVal(0), IntVal(1), IntVal(9)}
TrySimilarities == {Missing, FloatVal(0), FloatVal(Scale)}

\* C4: a paper without a year (no key, or None) scores 0.0 whatever its
\* citation count and relevance, and scoring it raises nothing.
AbsentYearScoresZero ==
    /\ AfterRerank =>
        \A i \in 1..Len(reranked_papers) :
            AbsentYear(reranked_papers[i]) =>
                /\ calculate_hybrid_score(reranked_papers[i]) = Ret(0)
                /\ \A c \in TryCitations, s \in TrySimilarities :
                       calculate_hybrid_score(
                           [reranked_papers[i] EXCEPT !.citationCount = c,
                                                      !.semantic_similarity = s])
                       = Ret(0)
    /\ AfterFilter =>
        \A i \in 1..Len(top_30_papers) :
            AbsentYear(top_30_papers[i]) => top_30_papers[i].hybrid_score = FloatVal(0)

\* a cited, relevant paper without the year key and one whose year is None
\* have been scored
AbsentYearWitness ==
    /\ pc = "filtered"
    /\ \E i, j \in 1..Len(top_30_papers) :
           /\ top_30_papers[i].year = Missing
           /\ top_30_papers[j].year = None
           /\ top_30_papers[i].citationCount = IntVal(2)
           /\ top_30_papers[i].semantic_similarity.n > 0
           /\ top_30_papers[i].hybrid_score = FloatVal(0)

\* C5: for a paper with an integer year and a fixed relevance, the score with
\* the larger of two non-negative citation counts is defined and strictly
\* greater.
ScoreIncreasesWithCitations ==
    AfterRerank =>
        \A i \in 1..Len(reranked_papers) :
            reranked_papers[i].year.tag = "int" =>
                \A c1, c2 \in 0..3 :
                    c1 < c2 =>
                        LET lo == calculate_hybrid_score(
                                      [reranked_papers[i] EXCEPT !.citationCount = IntVal(c1)])
                            hi == calculate_hybrid_score(
                                      [reranked_papers[i] EXCEPT !.citationCount = IntVal(c2)])
                        IN  /\ hi.exc = ""
                            /\ lo.exc = "" => hi.val > lo.val

\* C6: a failure of the embedding provider is never raised to the caller.
EmbeddingFailureNotRaised ==
    embed \in {"doc_fails", "down"} => pc # "error"

\* a key that is the decimal form of a year
IsYearKey(key) == Len(key) > 0 /\ \A i \in 1..Len(key) : key[i] \in 48..57
RECURSIVE ParseInt(_)
ParseInt(key) ==
    IF Len(key) = 0 THEN 0
    ELSE 10 * ParseInt(SubSeq(key, 1, Len(key) - 1)) + (key[Len(key)] - 48)

\* C7: the papers without a year that survive the cap are dropped or share
\* one bucket: the response has at most one key that is not a year, and no
\* paper without a year lies in the group of a year.
OneUnknownBucket ==
    pc = "done" =>
        /\ Cardinality({g \in 1..Len(Groups) : ~IsYearKey(Groups[g].year)}) <= 1
        /\ \A g \in 1..Len(Groups) :
               IsYearKey(Groups[g].year) =>
                   \A i \in 1..Len(Groups[g].papers) : ~AbsentYear(Groups[g].papers[i])

\* C8: of two adjacent year keys of papers_by_year the earlier one is the
\* numerically larger year.
YearsDescending ==
    pc = "done" =>
        \A g \in 1..(Len(Groups) - 1) :
            (IsYearKey(Groups[g].year) /\ IsYearKey(Groups[g + 1].year))
                => ParseInt(Groups[g].year) > ParseInt(Groups[g + 1].year)

\* an abstract that is not empty and holds nothing but white space
WhitespaceOnly(p) ==
    /\ p.abstract.tag = "str"
    /\ Len(p.abstract.s) > 0
    /\ \A i \in 1..Len(p.abstract.s) : p.abstract.s[i] \in {9, 10, 11, 12, 13, 32}

\* C9: a paper whose abstract is only white space is unrankable: it is not
\* among the indexed papers and gets semantic_similarity 0.0; both subsets
\* keep the order of the deduplicated sequence.
WhitespaceAbstractUnrankable ==
    AfterRerank =>
        /\ \A i \in 1..Len(unique_papers) :
               WhitespaceOnly(unique_papers[i]) =>
                   /\ unique_papers[i] \notin Range(valid_papers)
                   /\ unique_papers[i] \in Range(other_papers)
                   /\ \A k \in 1..Len(reranked_papers) :
                          reranked_papers[k].paperId = unique_papers[i].paperId
                              => reranked_papers[k].semantic_similarity = FloatVal(0)
        /\ \A i, j \in 1..Len(valid_papers) :
               i < j => FirstIndex(unique_papers, valid_papers[i].paperId)
                        < FirstIndex(unique_papers, valid_papers[j].paperId)
        /\ \A i, j \in 1..Len(other_papers) :
               i < j => FirstIndex(unique_papers, other_papers[i].paperId)
                        < FirstIndex(unique_papers, other_papers[j].paperId)

====
